---- MODULE Spec2Model ----
(***************************************************************************)
(* A model of jedi/evaluate/__init__.py: the Evaluator's statement         *)
(* evaluation (memoised and recursion-guarded), call-path following,       *)
(* execution, goto and the private-name filter.                            *)
(*                                                                         *)
(* Type Sets are sequences (Python lists) of type values.  One analysis    *)
(* session is one Evaluator instance: memoize_cache and the recursion      *)
(* detector live as long as the session.                                   *)
(***************************************************************************)
EXTENDS Integers, Sequences, FiniteSets, TLC

VARIABLES
    prog,                \* the statements under analysis (read-only syntax nodes)
    memoize_cache,       \* Evaluator.memoize_cache[eval_statement]: key -> Type Set
    recursion_detector,  \* Evaluator.recursion_detector: statements pushed, oldest first
    obs,                 \* call-counting test double: what the session has observed
    calls,               \* number of top-level requests served so far
    inp,                 \* the request being served by the path / execute / goto operations
    last                 \* the last top-level request and what it returned

vars == <<prog, memoize_cache, recursion_detector, obs, calls, inp, last>>

(***************************************************************************)
(* Bounds of the model.                                                    *)
(***************************************************************************)
NStmts == 2          \* statements in the analysed program
MaxCalls == 2        \* top-level eval_statement requests per session
MaxDepth == 5        \* Python frames of eval_statement before RecursionError
MaxPathLen == 2      \* segments of a call path handed to follow_path
MaxTypes == 2        \* candidate types handed to follow_path
MaxExecs == 3        \* execute requests per session

\* Names are kept as their characters: str(name) is what startswith/endswith read.
N_a == <<"a">>
N_b == <<"b">>
N_x == <<"x">>
N_y == <<"y">>
N_priv == <<"_", "_", "x">>
N_dunder == <<"_", "_", "x", "_", "_">>
N_uu == <<"_", "_">>
N_init == <<"_", "_", "i", "n", "i", "t", "_", "_">>

Names == {N_a, N_b}
None == <<"N", "o", "n", "e", "!">>
Stmts == 1..NStmts
SeekNames == Names \cup {None}
Keys == Stmts \X SeekNames

(***************************************************************************)
(* Sequence helpers.                                                       *)
(***************************************************************************)
RECURSIVE Flatten(_)
Flatten(ss) == IF ss = <<>> THEN <<>> ELSE Head(ss) \o Flatten(Tail(ss))

Range(s) == {s[i] : i \in 1..Len(s)}

Put(d, k, v) == [x \in DOMAIN d \cup {k} |-> IF x = k THEN v ELSE d[x]]

(***************************************************************************)
(* The analysed program.  A statement is `t1 = ... = tn <op> atom`, where   *)
(* atom is a one-segment call path: a Name or a Literal.  A FakeStatement  *)
(* carries its results in its expression list.                             *)
(***************************************************************************)
\* A call-path segment: a Name (its text), a Literal (the type of its value)
\* or an Array (its bracket type).
NameAtom(n) == [kind |-> "name", name |-> n, v |-> ""]
LitAtom(v) == [kind |-> "lit", name |-> <<>>, v |-> v]
ArrayAtom(v) == [kind |-> "array", name |-> <<>>, v |-> v]
\* An element that already is a type value (er.Function, er.Class, ...).
TypeAtom(v) == [kind |-> "type", name |-> <<>>, v |-> v]
\* A pr.Name token of the syntax tree: its text and where it stands.  Two
\* tokens are the same Name only when they stand at the same place.
NameTok(n, pos) == [kind |-> "name", name |-> n, v |-> "", pos |-> pos]
\* A call element with the elements chained after it (call.next ...).
Call(head, next) ==
    [kind |-> head.kind, name |-> head.name, v |-> head.v, next |-> next]
\* the segment a token or call element contributes to a call path
Segment(e) == [kind |-> e.kind, name |-> e.name, v |-> e.v]
\* call.generate_call_path(): the element, then what is chained after it
generate_call_path(call) ==
    IF "next" \in DOMAIN call THEN <<Segment(call)>> \o call.next
    ELSE <<Segment(call)>>
Stmt(fake, targets, op, inFor, rhs) ==
    [fake |-> fake, targets |-> targets, op |-> op, inFor |-> inFor, rhs |-> rhs]

StmtShapes ==
    { Stmt(FALSE, <<N_a>>, "=", FALSE, NameAtom(N_b)),       \* a = b
      Stmt(FALSE, <<N_b>>, "=", FALSE, NameAtom(N_a)),       \* b = a
      Stmt(FALSE, <<N_a>>, "=", FALSE, LitAtom("int")),      \* a = 1
      Stmt(FALSE, <<N_a, N_b>>, "=", FALSE, NameAtom(N_a)),  \* a = b = a
      Stmt(FALSE, <<N_a>>, "+=", FALSE, LitAtom("int")),     \* a += 1
      Stmt(FALSE, <<N_b>>, "+=", TRUE, NameAtom(N_a)),       \* for ...: b += a
      Stmt(TRUE, <<N_b>>, "=", FALSE, LitAtom("str")) }      \* FakeStatement

Programs == [Stmts -> StmtShapes]

\* stmt.get_defined_names()
get_defined_names(s) == prog[s].targets

\* stmt.assignment_details: one (target, operator) pair per assignment target
assignment_details(s) ==
    [i \in 1..Len(prog[s].targets) |-> <<prog[s].targets[i], prog[s].op>>]

(***************************************************************************)
(* Type values and the collaborators' answers (a fixed test double).       *)
(*   int, str   CompiledObject values (str is indexable)                   *)
(*   Foo, Bar   er.Class wrappers of the parser classes FooPr, BarPr       *)
(*   foo, bar   er.Instance of Foo, of Bar                                 *)
(*   cobj       er.Instance whose base is the CompiledObject CType         *)
(*   f, g       er.Function (g is decorated: get_decorated_func gives f)   *)
(*   fmagic     the magic function scope of f                              *)
(*   lst        iterable.Array instance                                    *)
(*   mod        a module;  imp  an import name that resolves to mod        *)
(*   ntuple     a function the standard-library simulator knows            *)
(***************************************************************************)
TypeValues == {"int", "str", "Foo", "Bar", "foo", "bar", "cobj", "CType",
               "f", "g", "fmagic", "lst", "mod", "imp", "ntuple"}

\* typ.isinstance(er.Function)
IsFunction(t) == t \in {"f", "g", "ntuple"}
\* isinstance(typ, er.Instance)
IsInstance(t) == t \in {"foo", "bar", "cobj"}
\* isinstance(typ, er.Class)
IsClass(t) == t \in {"Foo", "Bar"}
\* isinstance(typ, compiled.CompiledObject)
IsCompiled(t) == t \in {"int", "str", "CType", "fmagic"}
\* scope.base of an er.Instance (its class), and of an er.Class (the parser class)
BaseOf(t) ==
    CASE t = "foo" -> "Foo" [] t = "bar" -> "Bar" [] t = "cobj" -> "CType"
      [] t = "Foo" -> "FooPr" [] t = "Bar" -> "BarPr" [] OTHER -> "object"

\* call_scope.get_parent_until((pr.Class, er.Instance, compiled.CompiledObject)):
\* the class or instance enclosing the calling scope, or the module itself.
CallScopes == {"module", "in_FooPr", "in_BarPr", "in_foo", "in_CType"}
get_parent_until(call_scope) ==
    CASE call_scope = "in_FooPr" -> "FooPr" [] call_scope = "in_BarPr" -> "BarPr"
      [] call_scope = "in_foo" -> "foo" [] call_scope = "in_CType" -> "CType"
      [] OTHER -> "mod"

\* NameFinder's answer for an attribute lookup on a type value.
Attr(t, n) ==
    CASE t \in {"foo", "Foo"} /\ n = N_x -> <<"int">>
      [] t \in {"foo", "Foo"} /\ n = N_y -> <<"foo", "bar">>
      [] t \in {"foo", "Foo"} /\ n = N_priv -> <<"str", "foo">>
      [] t \in {"foo", "Foo"} /\ n = N_dunder -> <<"f">>
      [] t \in {"foo", "Foo"} /\ n = N_uu -> <<"int">>
      [] t \in {"bar", "Bar"} /\ n = N_x -> <<"imp">>
      [] t \in {"bar", "Bar"} /\ n = N_priv -> <<"int">>
      [] t = "cobj" /\ n = N_priv -> <<"str">>
      [] t = "cobj" /\ n = N_x -> <<"cobj">>
      [] t = "fmagic" /\ n = N_dunder -> <<"str">>
      [] t = "fmagic" /\ n = N_priv -> <<"int">>
      [] t = "mod" /\ n = N_x -> <<"Foo", "f">>
      [] t = "mod" /\ n = N_y -> <<"g", "int">>
      [] OTHER -> <<>>

\* typ.get_magic_function_scope()
get_magic_function_scope(t) == "fmagic"
\* obj.get_decorated_func()
get_decorated_func(t) == IF t = "g" THEN "f" ELSE t
\* hasattr(typ, 'get_index_types') and its answer
HasIndexTypes(t) == t \in {"lst", "str", "foo"}
get_index_types(t) ==
    CASE t = "lst" -> <<"int", "foo">> [] t = "str" -> <<"str">> [] OTHER -> <<>>
\* stdlib.execute: applies (with a result) or raises NotInStdLib
InStdLib(t) == t = "ntuple"
stdlib_execute(t) == <<"Foo">>
\* obj.py__call__: present or AttributeError, and its answer
HasPyCall(t) == IsFunction(t) \/ IsClass(t) \/ t \in {"CType", "bar"}
py__call__(t) ==
    CASE t = "Foo" -> <<"foo">> [] t = "Bar" -> <<"bar">> [] t = "CType" -> <<"cobj">>
      [] t = "f" -> <<"int", "Foo">> [] t = "ntuple" -> <<"str">>
      [] OTHER -> <<>>
\* imports.follow_imports: an import name is replaced by what it resolves to
ImportTarget(t) == IF t = "imp" THEN <<"mod">> ELSE <<t>>

(***************************************************************************)
(* The evaluator's state as it is threaded through one request.            *)
(*   memo, rec   memoize_cache and the recursion detector's stack          *)
(*   iters       the iterator objects (call-path cursors) alive: each has  *)
(*               its segments and its own position                         *)
(*   active      keys whose eval_statement body is running, outermost      *)
(*               first (the nesting debug.increase_indent tracks)          *)
(*   exc         a RecursionError is propagating                           *)
(*   n           calls made to each collaborator                           *)
(*   runs, started, done, how, elog, flog   what the test double records   *)
(***************************************************************************)
NoCounts == [finds |-> 0, imports |-> 0, sims |-> 0, pycalls |-> 0,
             warnings |-> 0, wrappers |-> 0]

Ret(st, val) == [st |-> st, val |-> val]

Count(st, what) == [st EXCEPT !.n[what] = @ + 1]

\* iter(sequence) / call.generate_call_path(): a fresh cursor at the start
NewIter(st, segs) == [st EXCEPT !.iters = Append(@, [segs |-> segs, pos |-> 0])]
NewIterId(st) == Len(st.iters) + 1
\* what next(path) would still yield
Remaining(st, path) ==
    SubSeq(st.iters[path].segs, st.iters[path].pos + 1, Len(st.iters[path].segs))
\* next(path) raises StopIteration
Exhausted(st, path) == Remaining(st, path) = <<>>
\* next(path): the segment, and the cursor moved on
Current(st, path) == Head(Remaining(st, path))
Advance(st, path) == [st EXCEPT !.iters[path].pos = @ + 1]

\* One cursor handed to every branch (what `[path] * n` would do).
tee_shared(st, path, n) == [st |-> st, ids |-> [i \in 1..n |-> path]]

\* itertools.tee(path, n): n cursors, each with a position of its own
tee(st, path, n) ==
    [st |-> [st EXCEPT !.iters = @ \o [i \in 1..n |-> st.iters[path]]],
     ids |-> [i \in 1..n |-> Len(st.iters) + i]]

StartsWith(s, p) == Len(s) >= Len(p) /\ SubSeq(s, 1, Len(p)) = p
EndsWith(s, p) == Len(s) >= Len(p) /\ SubSeq(s, Len(s) - Len(p) + 1, Len(s)) = p

\* The filter blocking every name that starts with two underscores.
filter_private_dunder(scope, call_scope, var_name) ==
    IF IsInstance(scope) /\ StartsWith(var_name, <<"_", "_">>)
    THEN LET s == get_parent_until(call_scope)
         IN  IF s # scope
             THEN IF IsCompiled(BaseOf(scope))
                  THEN s # BaseOf(scope)
                  ELSE s # BaseOf(BaseOf(scope))
             ELSE FALSE
    ELSE FALSE

\* filter_private_variable(scope, call_scope, var_name): TRUE blocks the lookup
filter_private_variable(scope, call_scope, var_name) ==
    IF IsInstance(scope) /\ StartsWith(var_name, <<"_", "_">>)
                         /\ ~EndsWith(var_name, <<"_", "_">>)
    THEN LET s == get_parent_until(call_scope)
         IN  IF s # scope
             THEN IF IsCompiled(BaseOf(scope))
                  THEN s # BaseOf(scope)
                  ELSE s # BaseOf(BaseOf(scope))
             ELSE FALSE
    ELSE FALSE

\* imports.follow_imports(evaluator, types)
follow_imports(st, types) ==
    Ret(Count(st, "imports"),
        Flatten([i \in 1..Len(types) |-> ImportTarget(types[i])]))

\* execute without the AttributeError handler: no call capability raises.
execute_unhandled(st, obj0, params) ==
    LET obj == IF IsFunction(obj0) THEN get_decorated_func(obj0) ELSE obj0
        st1 == Count(st, "sims")
    IN  IF InStdLib(obj)
        THEN Ret(st1, stdlib_execute(obj))
        ELSE IF ~HasPyCall(obj)
             THEN Ret([st1 EXCEPT !.exc = TRUE], <<>>)
             ELSE Ret(Count(st1, "pycalls"), py__call__(obj))

\* Evaluator.execute(obj, params)
execute(st, obj0, params) ==
    LET obj == IF IsFunction(obj0) THEN get_decorated_func(obj0) ELSE obj0
        st1 == Count(st, "sims")
    IN  IF InStdLib(obj)
        THEN Ret(st1, stdlib_execute(obj))
        ELSE IF ~HasPyCall(obj)
             THEN Ret(Count(st1, "warnings"), <<>>)
             ELSE Ret(Count(st1, "pycalls"), py__call__(obj))

(***************************************************************************)
(* Collaborators of the statement evaluator.                               *)
(***************************************************************************)
ModuleScope == "module"

\* NameFinder at module scope: the statements that define the name, in order
Defining(name) ==
    LET Defines(s) == name \in Range(get_defined_names(s))
    IN  SelectSeq([i \in 1..NStmts |-> i], Defines)

\* precedence._element_calculate: equal operands combine, others stay apart
element_calculate(l, r) == IF l = r THEN <<l>> ELSE <<l, r>>

\* precedence.calculate(evaluator, left_result, operator, right_result)
calculate(left, operator, right) ==
    IF left = <<>> \/ right = <<>>
    THEN left \o right
    ELSE Flatten([i \in 1..Len(left) |->
            Flatten([j \in 1..Len(right) |-> element_calculate(left[i], right[j])])])

\* the for-loop fold of an augmented assignment: one calculate per result
RECURSIVE calculate_each(_, _, _)
calculate_each(left, operator, result) ==
    IF result = <<>> THEN left
    ELSE calculate_each(calculate(left, operator, <<Head(result)>>), operator,
                        Tail(result))

\* finder.find_assignments(lhs, results, seek_name) for a Name target
find_assignments(lhs, results, seek_name) ==
    IF lhs = seek_name THEN results ELSE <<>>

Get(d, k) == IF k \in DOMAIN d THEN d[k] ELSE 0
Front(s) == SubSeq(s, 1, Len(s) - 1)

(***************************************************************************)
(* The evaluator.                                                          *)
(***************************************************************************)
RECURSIVE find_types(_, _, _, _, _)
RECURSIVE find_definitions(_, _, _)
RECURSIVE Call_eval_statement(_, _, _)
RECURSIVE eval_statement(_, _, _)
RECURSIVE memoize_default(_, _, _)
RECURSIVE Memoized(_, _, _)
RECURSIVE recursion_decorator(_, _, _)
RECURSIVE Guarded(_, _, _)
RECURSIVE eval_statement_body(_, _, _)
RECURSIVE eval_expression_list(_, _)
RECURSIVE eval_statement_element(_, _)
RECURSIVE eval_call(_, _)
RECURSIVE eval_call_path(_, _, _)
RECURSIVE follow_path(_, _, _, _)
RECURSIVE follow_branches(_, _, _, _, _, _, _)
RECURSIVE _follow_path(_, _, _, _)

\* `result += ...`: one more evaluation in front of the rest
Joined(val, t) == Ret(t.st, val \o t.val)

\* NameFinder.find after the first defining statement has been evaluated
find_more(h, defs, name) ==
    Joined(h.val, find_definitions(h.st, Tail(defs), name))

\* NameFinder.find over the defining statements: each is evaluated with
\* eval_statement(stmt, seek_name=name) and the results are concatenated.
find_definitions(st, defs, name) ==
    IF defs = <<>> \/ st.exc THEN Ret(st, <<>>)
    ELSE find_more(Call_eval_statement(st, Head(defs), name), defs, name)

\* NameFinder.filter_name: in goto mode the finder answers with the defining
\* Name tokens themselves and evaluates nothing.
filter_name(scope, name_str) ==
    IF scope = ModuleScope
    THEN [i \in 1..Len(Defining(name_str)) |->
             NameTok(name_str, Defining(name_str)[i])]
    ELSE IF Attr(scope, name_str) = <<>> THEN <<>>
         ELSE <<NameTok(name_str, 0)>>

\* Evaluator.find_types(scope, name_str, ...): names of the analysed module
\* resolve to their defining statements, attributes of a type value to the
\* finder's answer for that type; with is_goto the names are returned.
find_types(st, scope, name_str, search_global, is_goto) ==
    IF is_goto
    THEN Ret(Count(st, "finds"), filter_name(scope, name_str))
    ELSE IF scope = ModuleScope
         THEN find_definitions(Count(st, "finds"), Defining(name_str), name_str)
         ELSE Ret(Count(st, "finds"), Attr(scope, name_str))

\* What the test double records of an eval_statement call that was made in
\* state st and came back as r.
Recorded(st, s, seek, r) ==
    LET key == <<s, seek>>
        known == key \in DOMAIN st.done
        e == [key |-> key, val |-> r.val, how |-> r.st.how,
              top |-> st.active = <<>>,
              known |-> known,
              prev |-> IF known THEN st.done[key] ELSE <<>>,
              ran |-> Get(r.st.runs, key) > Get(st.runs, key),
              quiet |-> r.st.n = st.n,
              inprog |-> \E i \in 1..Len(st.active) : st.active[i][1] = s,
              rec0 |-> st.rec,
              active0 |-> st.active,
              rec1 |-> r.st.rec]
    IN  IF r.st.exc THEN r
        ELSE Ret([r.st EXCEPT !.elog = Append(@, e),
                              !.done = IF key \in st.started THEN @
                                       ELSE Put(@, key, r.val)],
                 r.val)

\* The test double around every eval_statement call: it records which key
\* was asked, what came back and what the call did.
Call_eval_statement(st, s, seek) ==
    Recorded(st, s, seek,
             eval_statement([st EXCEPT !.started = @ \cup {<<s, seek>>}], s, seek))

\* eval_statement with neither decorator.
eval_statement_undecorated(st, s, seek) == Guarded(st, s, seek)

\* eval_statement with the recursion guard only.
eval_statement_unmemoized(st, s, seek) == recursion_decorator(st, s, seek)

\* Evaluator.eval_statement as decorated: memoize_default is outermost
eval_statement(st, s, seek) == memoize_default(st, s, seek)

\* memoize_default once the function has returned: `memo[key] = rv`
memoize_store(s, seek, r) ==
    IF r.st.exc THEN r
    ELSE Ret([r.st EXCEPT !.memo = Put(@, <<s, seek>>, r.val)], r.val)

\* cache.memoize_default(default=[], evaluator_is_first_arg=True)
memoize_default(st, s, seek) ==
    IF <<s, seek>> \in DOMAIN st.memo
    THEN Ret([st EXCEPT !.how = "hit"], st.memo[<<s, seek>>])
    ELSE memoize_store(s, seek,
            Memoized([st EXCEPT !.memo = Put(@, <<s, seek>>, <<>>)], s, seek))

\* What memoize_default wraps, with the recursion guard left out.
Memoized_unguarded(st, s, seek) == Guarded(st, s, seek)

\* what memoize_default wraps: the function under recursion.recursion_decorator
Memoized(st, s, seek) == recursion_decorator(st, s, seek)

\* recursion_decorator once the function has returned: pop_stmt
pop_stmt(r) ==
    IF r.st.exc THEN r ELSE Ret([r.st EXCEPT !.rec = Front(@)], r.val)

\* recursion.recursion_decorator: push_stmt, the function, pop_stmt
recursion_decorator(st, s, seek) ==
    IF s \in Range(st.rec)
    THEN Ret([Count(st, "warnings") EXCEPT !.how = "cycle"], <<>>)
    ELSE pop_stmt(Guarded([st EXCEPT !.rec = Append(@, s)], s, seek))

\* debug.increase_indent once the body has returned
leave_body(r) ==
    IF r.st.exc THEN r
    ELSE Ret([r.st EXCEPT !.active = Front(@), !.how = "body"], r.val)

\* what the recursion guard wraps: the body under debug.increase_indent;
\* Python raises RecursionError when the frames run out
Guarded(st, s, seek) ==
    IF Len(st.active) >= MaxDepth
    THEN Ret([st EXCEPT !.exc = TRUE], <<>>)
    ELSE leave_body(eval_statement_body(
                       [st EXCEPT !.active = Append(@, <<s, seek>>),
                                  !.runs = Put(@, <<s, seek>>,
                                               Get(@, <<s, seek>>) + 1)],
                       s, seek))

\* the augmented assignment once `left` has been looked up
aug_assign(stmt, res, left) ==
    IF left.st.exc THEN left
    ELSE IF stmt.inFor
    THEN Ret(left.st, calculate_each(left.val, "+", res.val))
    ELSE Ret(left.st, calculate(left.val, "+", res.val))

\* eval_statement once the expression list has been evaluated to `result`
assigned(s, seek, res) ==
    LET stmt == prog[s]
        ass_details == assignment_details(s)
    IN  IF res.st.exc THEN res
        ELSE IF ass_details # <<>> /\ ass_details[1][2] # "="
        THEN aug_assign(stmt, res,
                        find_types(res.st, ModuleScope, ass_details[1][1],
                                   FALSE, FALSE))
        ELSE IF Len(get_defined_names(s)) > 1 /\ seek # None /\ ass_details # <<>>
        THEN Ret(res.st,
                 Flatten([i \in 1..Len(ass_details) |->
                            find_assignments(ass_details[i][1], res.val, seek)]))
        ELSE res

\* the body of Evaluator.eval_statement
eval_statement_body(st, s, seek) ==
    IF prog[s].fake THEN Ret(st, <<prog[s].rhs.v>>)
    ELSE assigned(s, seek, eval_expression_list(st, <<prog[s].rhs>>))

\* Evaluator.eval_expression_list: the precedence tree of a one-element
\* expression list is that element
eval_expression_list(st, expression_list) ==
    IF expression_list = <<>> THEN Ret(st, <<>>)
    ELSE eval_statement_element(st, expression_list[1])

\* Evaluator.eval_statement_element
eval_statement_element(st, element) ==
    CASE element.kind = "type" -> Ret(st, <<element.v>>)
      [] element.kind = "token" -> Ret(st, <<>>)
      [] OTHER -> eval_call(st, element)

\* Evaluator.eval_call: the call path of the element, from its enclosing scope
eval_call(st, call) ==
    eval_call_path(NewIter(st, generate_call_path(call)), NewIterId(st),
                   ModuleScope)

\* eval_call_path once the first segment has given `types`:
\* follow_imports, then the rest of the path
follow_found(found, path, scope) ==
    IF found.st.exc THEN found
    ELSE LET imp == follow_imports(found.st, found.val)
         IN  follow_path(imp.st, path, imp.val, scope)

\* Evaluator.eval_call_path (arrays of the model are empty literals)
eval_call_path(st, path, scope) ==
    LET current == Current(st, path)
        st1 == Advance(st, path)
    IN  IF current.kind = "array"
        THEN IF current.v = "noarray"
             THEN follow_path(st1, path, <<>>, scope)
             ELSE follow_path(st1, path, <<"lst">>, scope)
        ELSE follow_found(IF current.kind = "name"
                          THEN find_types(st1, scope, current.name, TRUE, FALSE)
                          ELSE Ret(st1, <<current.v>>),
                          path, scope)

\* The return of follow_path keeping the partial results on exhaustion.
follow_path_return_partial(types, results_new, stopped) == results_new

\* The return of follow_path handing back its input when nothing resolved.
follow_path_return_fail_open(types, results_new, stopped) ==
    IF stopped \/ results_new = <<>> THEN types ELSE results_new

\* what follow_path returns: its input when a branch reported the cursor
\* exhausted, the branches' concatenated results otherwise
follow_path_return(types, results_new, stopped) ==
    IF stopped THEN types ELSE results_new

\* follow_path once its loop is over; the invocation is recorded with its
\* branches and what each branch's cursor still held
follow_path_end(st, path, types, r) ==
    LET res == follow_path_return(types, r.val, r.stopped)
        e == [types |-> types, branches |-> r.branches, res |-> res,
              rest |-> Remaining(st, path)]
    IN  IF r.st.exc THEN Ret(r.st, <<>>)
        ELSE Ret([r.st EXCEPT !.flog = Append(@, e)], res)

\* Evaluator.follow_path(path, types, call_scope)
follow_path(st, path, types, call_scope) ==
    LET t == tee(st, path, Len(types))
    IN  follow_path_end(st, path, types,
            follow_branches(t.st, t.ids, types, 1, <<>>, call_scope, <<>>))

\* the loop of follow_path once candidate i's branch has returned fp
branch_done(fp, seen, iter_paths, types, i, results_new, call_scope, branches) ==
    LET b == Append(branches, [typ |-> types[i], none |-> fp.none,
                               val |-> fp.val, seen |-> seen,
                               step |-> fp.step])
    IN  IF ~fp.none
        THEN follow_branches(fp.st, iter_paths, types, i + 1,
                             results_new \o fp.val, call_scope, b)
        ELSE [st |-> fp.st, val |-> results_new, stopped |-> TRUE,
              branches |-> b]

\* the loop of follow_path from candidate i on
follow_branches(st, iter_paths, types, i, results_new, call_scope, branches) ==
    IF i > Len(types) \/ st.exc
    THEN [st |-> st, val |-> results_new, stopped |-> FALSE, branches |-> branches]
    ELSE branch_done(_follow_path(st, iter_paths[i], types[i], call_scope),
                     Remaining(st, iter_paths[i]), iter_paths, types, i,
                     results_new, call_scope, branches)

RetStep(st, none, val, step) ==
    [st |-> st, none |-> none, val |-> val, step |-> step]

\* `return self.follow_path(path, result, scope)`: step is the `result`
\* the segment gave for this candidate
stepped(f, step) == RetStep(f.st, FALSE, f.val, step)
follow_result(res, path, scope) ==
    stepped(follow_path(res.st, path, res.val, scope), res.val)

\* the name segment once find_types has answered: follow_imports, and on
looked_up(found, path, scope) ==
    follow_result(follow_imports(found.st, found.val), path, scope)

\* Evaluator._follow_path(path, typ, scope): None when the cursor is
\* exhausted
_follow_path(st, path, typ, scope) ==
    IF Exhausted(st, path) THEN RetStep(st, TRUE, <<>>, <<>>)
    ELSE
    LET current == Current(st, path)
        st1 == Advance(st, path)
    IN  IF current.kind = "array"
        THEN follow_result(
                 IF current.v = "list"
                 THEN IF HasIndexTypes(typ)
                      THEN Ret(st1, get_index_types(typ))
                      ELSE Ret(st1, <<>>)
                 ELSE IF current.v # "dict"
                      THEN execute(st1, typ, current)
                      ELSE Ret(Count(st1, "warnings"), <<>>),
                 path, scope)
        ELSE IF ~IsFunction(typ) /\ filter_private_variable(typ, scope, current.name)
             THEN RetStep(st1, FALSE, <<>>, <<>>)
             ELSE looked_up(
                      find_types(st1,
                                 IF IsFunction(typ)
                                 THEN get_magic_function_scope(typ) ELSE typ,
                                 current.name, FALSE, FALSE),
                      path, scope)

(***************************************************************************)
(* goto.  A statement handed to goto is an import                          *)
(*   [kind "import", alias, names]    names = get_all_import_names()       *)
(* or an expression statement                                              *)
(*   [kind "stmt", defined, parent]   defined = get_defined_names()        *)
(* whose parent is its scope or an array [type, previous]; previous is the *)
(* callee in front of a call's argument array: its head element, the       *)
(* elements up to the one the array follows, and what comes after.         *)
(***************************************************************************)
NoName == [kind |-> "none", name |-> <<>>, v |-> "", pos |-> 0]
NoCall == [head |-> NoName, upto |-> <<>>, after |-> <<>>]

\* stmt.get_parent_scope()
get_parent_scope(stmt) == ModuleScope

\* typ.params of a function: its parameters' Name tokens (param.get_name())
Params(t) ==
    CASE t = "f" -> <<NameTok(N_a, 11), NameTok(N_b, 12)>>
      [] t = "g" -> <<NameTok(N_b, 13), NameTok(N_x, 14)>>
      [] OTHER -> <<>>
\* typ.py__getattribute__('__init__') of a class
InitMethods(t) ==
    CASE t = "Foo" -> <<"f", "g">> [] OTHER -> <<>>

\* imports.ImportWrapper(evaluator, stmt, kill_count, nested_resolve=True)
\* .follow(is_goto=True): the Name the import leads to once kill_count
\* trailing names are dropped
ImportWrapper_follow(st, stmt, kill_count) ==
    LET st1 == [Count(st, "wrappers") EXCEPT
                   !.glog = Append(@, [what |-> "ImportWrapper",
                                       kill_count |-> kill_count])]
        names == IF stmt.alias # NoName THEN Front(stmt.names) ELSE stmt.names
        target == names[Len(names) - kill_count]
    IN  Ret(st1, <<NameTok(target.name, 0)>>)

\* Resolving the alias like any other imported name.
alias_never(stmt, call_path) == FALSE

\* `stmt.alias == call_path[0]`
alias_asked(stmt, call_path) == stmt.alias = call_path[1]

\* names.index(call_path[0]), counted from zero; -1 stands for ValueError
index(names, name) ==
    IF name \in Range(names)
    THEN (CHOOSE i \in 1..Len(names) :
             names[i] = name /\ \A j \in 1..(i - 1) : names[j] # name) - 1
    ELSE -1

\* The callee with the call it makes still chained after it.
callee_with_next(previous) == Call(previous.head, previous.upto \o previous.after)

\* deep_ast_copy(stmt.parent.previous), `call.next = None`, then back along
\* `previous` to the head of the chain
callee(previous) == Call(previous.head, previous.upto)

\* the parameters of one evaluated callee
params_of(typ) ==
    IF IsClass(typ)
    THEN Flatten([i \in 1..Len(InitMethods(typ)) |-> Params(InitMethods(typ)[i])])
    ELSE Params(typ)

\* the loop over the evaluated callees collecting param_names
param_names(types, named_param_name) ==
    LET Same(param) == param.name = named_param_name.name
    IN  Flatten([i \in 1..Len(types) |-> SelectSeq(params_of(types[i]), Same)])

\* the fold `follow_res += self.find_types(s, ..., is_goto=True)` over scopes
RECURSIVE goto_scopes(_, _, _, _)
goto_more(h, scopes, search_name_part, search_global) ==
    Joined(h.val, goto_scopes(h.st, Tail(scopes), search_name_part,
                              search_global))
goto_scopes(st, scopes, search_name_part, search_global) ==
    IF scopes = <<>> THEN Ret(st, <<>>)
    ELSE goto_more(find_types(st, Head(scopes), search_name_part.name,
                              search_global, TRUE),
                   scopes, search_name_part, search_global)

\* goto on a keyword argument once the callee has been evaluated
named_params(call, named_param_name, ev) ==
    IF ev.st.exc THEN ev
    ELSE Ret([ev.st EXCEPT
                 !.glog = Append(@, [what |-> "eval_call",
                                     path |-> generate_call_path(call),
                                     types |-> ev.val])],
             param_names(ev.val, named_param_name))

\* goto once the leading part of the path has given the scopes to search
goto_in(scopes, search_name_part, search_global) ==
    IF scopes.st.exc THEN scopes
    ELSE goto_scopes(scopes.st, scopes.val, search_name_part, search_global)

\* Evaluator.goto(stmt, call_path)
goto(st, stmt, call_path) ==
    IF stmt.kind = "import"
    THEN IF alias_asked(stmt, call_path)
         THEN Ret(st, <<call_path[1]>>)
         ELSE LET names == IF stmt.alias # NoName THEN Front(stmt.names)
                           ELSE stmt.names
                  at == index(names, call_path[1])
                  removed_names == Len(names) - at - 1
              IN  IF at < 0 THEN Ret([st EXCEPT !.exc = TRUE], <<>>)
                  ELSE ImportWrapper_follow(st, stmt, removed_names)
    ELSE IF /\ Len(call_path) = 1 /\ call_path[1].kind = "name"
            /\ call_path[1] \in Range(stmt.defined)
    THEN IF /\ stmt.parent.type \in {"tuple", "noarray"}
            /\ stmt.parent.previous # NoCall
         THEN LET call == callee(stmt.parent.previous)
                  named_param_name == stmt.defined[1]
              IN  named_params(call, named_param_name, eval_call(st, call))
         ELSE Ret(st, <<call_path[1]>>)
    ELSE LET scope == get_parent_scope(stmt)
             first_part == Front(call_path)
             search_name_part == call_path[Len(call_path)]
         IN  goto_in(IF first_part # <<>>
                     THEN eval_call_path(
                             NewIter(st, [i \in 1..Len(first_part) |->
                                             Segment(first_part[i])]),
                             NewIterId(st), scope)
                     ELSE Ret(st, <<scope>>),
                     search_name_part, first_part = <<>>)

(***************************************************************************)
(* One analysis session: Evaluator() and then top-level eval_statement     *)
(* requests, each run to completion.                                       *)
(***************************************************************************)
NoInput == [op |-> "none"]
NoRequest == [op |-> "none"]
NoObs == [n |-> NoCounts, runs |-> <<>>, started |-> {}, done |-> <<>>]

\* the evaluator's state at the start of a request
Enter ==
    [memo |-> memoize_cache, rec |-> recursion_detector, iters |-> <<>>,
     active |-> <<>>, exc |-> FALSE, how |-> "none", n |-> obs.n,
     runs |-> obs.runs, started |-> obs.started, done |-> obs.done,
     elog |-> <<>>, flog |-> <<>>, glog |-> <<>>]

\* Evaluator.__init__
Init ==
    /\ prog \in Programs
    /\ memoize_cache = <<>>
    /\ recursion_detector = <<>>
    /\ obs = NoObs
    /\ calls = 0
    /\ inp = NoInput
    /\ last = NoRequest

\* a client calls evaluator.eval_statement(stmt, seek_name)
Returned(s, seek, r) ==
    /\ memoize_cache' = r.st.memo
    /\ recursion_detector' = r.st.rec
    /\ obs' = [n |-> r.st.n, runs |-> r.st.runs,
               started |-> r.st.started, done |-> r.st.done]
    /\ last' = [op |-> "eval_statement", key |-> <<s, seek>>,
                val |-> r.val, exc |-> r.st.exc, elog |-> r.st.elog,
                active |-> r.st.active]

EvalStatement(s, seek) ==
    /\ calls < MaxCalls
    /\ Returned(s, seek, Call_eval_statement(Enter, s, seek))
    /\ calls' = calls + 1
    /\ UNCHANGED <<prog, inp>>

\* a client asks for a statement as a whole or for one of the names it defines
Requests == {k \in Keys : k[2] = None \/ k[2] \in Range(prog[k[1]].targets)}

Next == \E k \in Requests : EvalStatement(k[1], k[2])

Spec == Init /\ [][Next]_vars

(***************************************************************************)
(* Claims about the statement evaluator (specification Spec).              *)
(***************************************************************************)
AeqB == Stmt(FALSE, <<N_a>>, "=", FALSE, NameAtom(N_b))
BeqA == Stmt(FALSE, <<N_b>>, "=", FALSE, NameAtom(N_a))

\* the program is the cycle `a = b`, `b = a` and nothing else
PureCycle ==
    /\ \A s \in Stmts : prog[s] \in {AeqB, BeqA}
    /\ \E s \in Stmts : prog[s] = AeqB
    /\ \E s \in Stmts : prog[s] = BeqA

Served == last.op = "eval_statement"
Events == IF Served THEN Range(last.elog) ELSE {}

C2_MemoizedOnce ==
    /\ \A k \in DOMAIN obs.runs : obs.runs[k] <= 1
    /\ \A e \in Events : e.known => e.val = e.prev /\ ~e.ran /\ e.quiet

\* C2 witness: a key computed earlier to a non-empty Type Set was asked again.
C2_Witness ==
    \E e \in Events : e.known /\ e.prev # <<>> /\ e.top

\* C10: the recursion detector's marks are exactly the statements whose body
\* is running; after a top-level call has returned none is left, and a
\* top-level call is never answered by cycle detection.
C10_GuardBalanced ==
    /\ recursion_detector = <<>>
    /\ \A e \in Events :
          /\ e.rec0 = [i \in 1..Len(e.active0) |-> e.active0[i][1]]
          /\ e.rec1 = e.rec0
          /\ e.top => e.how # "cycle"

\* C10 witness: a second request ran a body after an earlier request had
\* ended a cycle by detection, and no mark is left.
C10_Witness ==
    /\ calls >= 2 /\ recursion_detector = <<>> /\ obs.n.warnings > 0
    /\ \E e \in Events : e.top /\ e.how = "body"
    /\ \E e \in Events : e.how = "cycle"

\* a new Evaluator(): empty caches, nothing in progress
Fresh ==
    [memo |-> <<>>, rec |-> <<>>, iters |-> <<>>, active |-> <<>>,
     exc |-> FALSE, how |-> "none", n |-> NoCounts, runs |-> <<>>,
     started |-> {}, done |-> <<>>, elog |-> <<>>, flog |-> <<>>,
     glog |-> <<>>]

\* what eval_statement(stmt, seek_name) returns as the first request of a
\* session over the same program
StandAlone(s, seek) == Call_eval_statement(Fresh, s, seek).val

SeqsUpTo(S, n) == UNION {[1..k -> S] : k \in 0..n}

PathSegs == {NameAtom(N_x), NameAtom(N_y), NameAtom(N_priv),
             ArrayAtom("tuple"), ArrayAtom("list"), ArrayAtom("dict")}
InputTypes == {"foo", "bar", "mod", "int"}
PathScopes == {"module", "in_FooPr"}

IdleEvaluator ==
    /\ prog = [s \in Stmts |-> Stmt(FALSE, <<N_a>>, "=", FALSE, LitAtom("int"))]
    /\ memoize_cache = <<>>
    /\ recursion_detector = <<>>
    /\ obs = NoObs
    /\ calls = 0
    /\ last = NoRequest

InitPath ==
    /\ IdleEvaluator
    /\ inp \in [op : {"follow_path"}, path : SeqsUpTo(PathSegs, MaxPathLen),
                types : SeqsUpTo(InputTypes, MaxTypes), scope : PathScopes]

Followed_path(r) ==
    /\ last' = [op |-> "follow_path", val |-> r.val, exc |-> r.st.exc,
                flog |-> r.st.flog]
    /\ obs' = [obs EXCEPT !.n = r.st.n]

\* a caller invokes evaluator.follow_path(iter(path), types, scope)
FollowPath ==
    /\ inp.op = "follow_path" /\ last.op = "none"
    /\ Followed_path(follow_path(NewIter(Enter, inp.path), 1, inp.types,
                                 inp.scope))
    /\ calls' = calls + 1
    /\ UNCHANGED <<prog, memoize_cache, recursion_detector, inp>>

SpecPath == InitPath /\ [][FollowPath]_vars

(***************************************************************************)
(* Claims about follow_path (specification SpecPath).                      *)
(***************************************************************************)
Followed == last.op = "follow_path"
\* every follow_path invocation of the request, nested ones included
Invocations == IF Followed THEN Range(last.flog) ELSE {}
Branches(e) == 1..Len(e.branches)
BranchVals(e) == Flatten([i \in Branches(e) |-> e.branches[i].val])

\* C3: follow_path continues the path for the candidates in order; if a
\* branch reports the cursor exhausted the input types are returned
\* unchanged, otherwise the concatenation of all branches' results.
C3_FollowPathResult ==
    \A e \in Invocations :
        /\ \A i \in Branches(e) : e.branches[i].typ = e.types[i]
        /\ IF \E i \in Branches(e) : e.branches[i].none
           THEN e.res = e.types
           ELSE /\ Len(e.branches) = Len(e.types)
                /\ e.res = BranchVals(e)

\* C3 witness: one request saw both outcomes: an invocation that returned
\* the concatenation of two branches' results, and one that returned its
\* two input types on exhaustion.
C3_Witness ==
    /\ \E e \in Invocations :
          /\ Len(e.types) = 2 /\ \A i \in Branches(e) : ~e.branches[i].none
          /\ e.branches[1].val # <<>> /\ e.branches[2].val # <<>>
          /\ e.res = e.branches[1].val \o e.branches[2].val
    /\ \E e \in Invocations :
          /\ Len(e.types) = 2 /\ e.branches[1].none /\ e.res = e.types

\* a branch whose next segment yielded nothing for its candidate type
Unmatched(b) == ~b.none /\ b.step = <<>>
AllUnmatched(e) ==
    /\ e.types # <<>>
    /\ Len(e.branches) = Len(e.types)
    /\ \A i \in Branches(e) : Unmatched(e.branches[i])

\* C4 as stated: an unmatched branch contributes nothing, and when all
\* branches of a non-empty input are unmatched follow_path returns the
\* input type set unchanged.
C4_AllFailReturnsInput ==
    \A e \in Invocations :
        /\ \A i \in Branches(e) : Unmatched(e.branches[i]) => e.branches[i].val = <<>>
        /\ AllUnmatched(e) => e.res = e.types

\* C4 amended: an unmatched branch contributes nothing, and when all
\* branches of a non-empty input are unmatched follow_path returns the
\* empty Type Set; a branch makes follow_path return its input only when
\* the cursor is exhausted.
C4_AllFailReturnsEmpty ==
    \A e \in Invocations :
        /\ \A i \in Branches(e) : Unmatched(e.branches[i]) => e.branches[i].val = <<>>
        /\ AllUnmatched(e) => e.res = <<>>
        /\ (\E i \in Branches(e) : e.branches[i].none) => e.rest = <<>>

\* C4 witness: two candidates, neither matched the segment, nothing returned.
C4_Witness ==
    /\ Followed /\ Len(inp.types) = 2 /\ inp.path # <<>> /\ last.val = <<>>
    /\ \E e \in Invocations : AllUnmatched(e) /\ e.types = inp.types

\* C9: every branch of an invocation starts with the whole remaining path,
\* whatever earlier branches consumed; so a branch is exhausted exactly when
\* the invocation's cursor was, and the return-the-input short-circuit only
\* ever fires on the first branch, with no results gathered yet.
C9_CursorIndependence ==
    \A e \in Invocations :
        \A i \in Branches(e) :
            /\ e.branches[i].seen = e.rest
            /\ e.branches[i].none <=> e.rest = <<>>
            /\ e.branches[i].none => i = 1

\* C9 witness: the first of two branches consumed two segments and resolved
\* to something, and the second branch still started with both segments.
C9_Witness ==
    \E e \in Invocations :
        /\ Len(e.branches) = 2 /\ Len(e.rest) = 2
        /\ e.branches[1].val # <<>>
        /\ e.branches[2].seen = e.rest /\ e.branches[2].val # <<>>

(***************************************************************************)
(* _follow_path on one candidate type: the name segment, the private-name  *)
(* filter and the attribute lookup.                                        *)
(***************************************************************************)
SegNames == {N_x, N_y, N_priv, N_dunder, N_uu, N_init}

InitOne ==
    /\ IdleEvaluator
    /\ inp \in [op : {"_follow_path"}, typ : TypeValues, name : SegNames,
                rest : {<<>>, <<NameAtom(N_x)>>}, scope : CallScopes]

Followed_one(r) ==
    /\ last' = [op |-> "_follow_path", none |-> r.none, val |-> r.val,
                step |-> r.step, flog |-> r.st.flog, n |-> r.st.n]
    /\ obs' = [obs EXCEPT !.n = r.st.n]

\* follow_path reaches evaluator._follow_path(path, typ, scope) with a name
\* segment next on the cursor
FollowOne ==
    /\ inp.op = "_follow_path" /\ last.op = "none"
    /\ Followed_one(_follow_path(
                        NewIter(Enter, <<NameAtom(inp.name)>> \o inp.rest),
                        1, inp.typ, inp.scope))
    /\ calls' = calls + 1
    /\ UNCHANGED <<prog, memoize_cache, recursion_detector, inp>>

SpecOne == InitOne /\ [][FollowOne]_vars

(***************************************************************************)
(* Claims about private names (specification SpecOne).                     *)
(***************************************************************************)
PrivateForm(n) == StartsWith(n, <<"_", "_">>) /\ ~EndsWith(n, <<"_", "_">>)
\* the class the filter compares the caller's class against
ClassOf(t) == IF IsCompiled(BaseOf(t)) THEN BaseOf(t) ELSE BaseOf(BaseOf(t))
Enclosing == get_parent_until(inp.scope)
OneDone == last.op = "_follow_path"
\* the lookup was cut short: nothing looked up, and follow_path not entered
\* for the rest of the path
ShortCircuited ==
    /\ ~last.none /\ last.val = <<>>
    /\ last.n.finds = 0 /\ last.n.imports = 0
    /\ last.flog = <<>>
\* the attribute lookup was made and its (import-followed) Type Set passed on
LookedUp(t) ==
    /\ last.n.finds >= 1 /\ last.n.imports >= 1 /\ last.flog # <<>>
    /\ last.step = Flatten([i \in 1..Len(Attr(t, inp.name)) |->
                              ImportTarget(Attr(t, inp.name)[i])])
    /\ inp.rest = <<>> => last.val = last.step

\* C5 as stated: a private-form name looked up on any candidate type that
\* defines it is short-circuited whenever the caller's enclosing class is
\* neither that type nor its base, and looked up otherwise; other names are
\* never blocked.
C5_PrivateBlockedOnAnyType ==
    OneDone =>
        /\ (PrivateForm(inp.name) /\ Attr(inp.typ, inp.name) # <<>>) =>
              IF Enclosing # inp.typ
                 /\ Enclosing # (IF IsInstance(inp.typ) THEN ClassOf(inp.typ)
                                 ELSE BaseOf(inp.typ))
              THEN ShortCircuited
              ELSE LookedUp(inp.typ)
        /\ ~PrivateForm(inp.name) => last.n.finds >= 1

\* C5 amended: the short-circuit applies to candidate types that are
\* instances (er.Instance): there a private-form name is short-circuited
\* whenever the caller's enclosing class or instance is neither the
\* instance itself nor its class (scope.base when that is a compiled
\* object, scope.base.base otherwise), and looked up otherwise.  On every
\* other candidate type, and for every name not of the private form, the
\* lookup is never blocked.
C5_PrivateBlockedOnInstances ==
    OneDone =>
        /\ (PrivateForm(inp.name) /\ IsInstance(inp.typ)) =>
              IF Enclosing # inp.typ /\ Enclosing # ClassOf(inp.typ)
              THEN ShortCircuited
              ELSE LookedUp(inp.typ)
        /\ (~PrivateForm(inp.name) \/ ~IsInstance(inp.typ)) => last.n.finds >= 1
        /\ (~IsInstance(inp.typ) /\ ~IsFunction(inp.typ)) => LookedUp(inp.typ)

\* C5 witness: `foo.__x` was blocked from module level although foo defines it.
C5_Witness ==
    /\ OneDone /\ inp.typ = "foo" /\ inp.name = N_priv /\ inp.scope = "module"
    /\ Attr("foo", N_priv) # <<>> /\ ShortCircuited

(***************************************************************************)
(* execute on its own: a session of execute requests.                      *)
(***************************************************************************)
InitExec ==
    /\ IdleEvaluator
    /\ inp = [op |-> "execute"]

\* a caller invokes evaluator.execute(obj, params)
Execute(obj) ==
    /\ inp.op = "execute" /\ calls < MaxExecs
    /\ LET r == execute(Enter, obj, <<>>)
       IN  /\ last' = [op |-> "execute", obj |-> obj, val |-> r.val,
                       exc |-> r.st.exc,
                       sims |-> r.st.n.sims - obs.n.sims,
                       pycalls |-> r.st.n.pycalls - obs.n.pycalls,
                       warnings |-> r.st.n.warnings - obs.n.warnings]
           /\ obs' = [obs EXCEPT !.n = r.st.n]
    /\ calls' = calls + 1
    /\ UNCHANGED <<prog, memoize_cache, recursion_detector, inp>>

NextExec == \E obj \in TypeValues : Execute(obj)

SpecExec == InitExec /\ [][NextExec]_vars

\* C6: execute asks the standard-library simulator first and returns its
\* result when it applies, without invoking the call capability; when it
\* does not apply and the value has no call capability, execute warns and
\* returns the empty Type Set without raising; otherwise the capability is
\* invoked exactly once and its result returned.
C6_ExecuteNeverFails ==
    last.op = "execute" =>
        LET obj == IF IsFunction(last.obj) THEN get_decorated_func(last.obj)
                   ELSE last.obj
        IN  /\ ~last.exc
            /\ last.sims = 1
            /\ InStdLib(obj) =>
                  last.val = stdlib_execute(obj) /\ last.pycalls = 0
                                                 /\ last.warnings = 0
            /\ (~InStdLib(obj) /\ ~HasPyCall(obj)) =>
                  last.val = <<>> /\ last.pycalls = 0 /\ last.warnings = 1
            /\ (~InStdLib(obj) /\ HasPyCall(obj)) =>
                  last.val = py__call__(obj) /\ last.pycalls = 1
                                             /\ last.warnings = 0

\* C6 witness: a value with no call capability was executed after a callable
\* one: a warning, an empty result, no exception.
C6_Witness ==
    /\ last.op = "execute" /\ calls >= 2 /\ obs.n.pycalls >= 1
    /\ ~HasPyCall(last.obj) /\ ~InStdLib(last.obj)
    /\ last.val = <<>> /\ last.warnings = 1 /\ ~last.exc

(***************************************************************************)
(* goto on its own: one request against a small analysed module.           *)
(***************************************************************************)
GotoShapes ==
    { Stmt(FALSE, <<N_a>>, "=", FALSE, TypeAtom("f")),     \* a is the function f
      Stmt(FALSE, <<N_a>>, "=", FALSE, TypeAtom("Foo")),   \* a is the class Foo
      Stmt(FALSE, <<N_b>>, "=", FALSE, NameAtom(N_a)),     \* b = a
      Stmt(FALSE, <<N_b>>, "=", FALSE, LitAtom("int")) }   \* b = 1

\* `import x.y as b` and `import x.y`
ImportStmts ==
    { [kind |-> "import", alias |-> NameTok(N_b, 43),
       names |-> <<NameTok(N_x, 41), NameTok(N_y, 42), NameTok(N_b, 43)>>],
      [kind |-> "import", alias |-> NoName,
       names |-> <<NameTok(N_x, 41), NameTok(N_y, 42)>>] }
ImportPaths ==
    { <<NameTok(N_x, 41)>>, <<NameTok(N_y, 42)>>, <<NameTok(N_b, 43)>>,
      <<NameTok(N_b, 44)>>, <<NameTok(N_b, 43), NameTok(N_x, 45)>>,
      <<NameTok(N_x, 41), NameTok(N_y, 42)>> }

\* the callee in front of the argument array: `a(...)`, `b(...)`, `a.x(...)`
Callees(type) ==
    { [head |-> NameAtom(N_a), upto |-> <<>>, after |-> <<ArrayAtom(type)>>],
      [head |-> NameAtom(N_b), upto |-> <<>>, after |-> <<ArrayAtom(type)>>],
      [head |-> NameAtom(N_a), upto |-> <<NameAtom(N_x)>>,
       after |-> <<ArrayAtom(type)>>] }
\* a keyword argument defines one name; elsewhere a statement may define two
PlainStmts ==
    {[kind |-> "stmt", defined |-> d, parent |-> [type |-> ty, previous |-> NoCall]] :
        d \in {<<NameTok(N_a, 21)>>, <<NameTok(N_b, 22), NameTok(N_a, 21)>>},
        ty \in {"scope", "tuple", "list"}}
    \cup
    UNION {{[kind |-> "stmt", defined |-> <<NameTok(n, 21)>>,
             parent |-> [type |-> ty, previous |-> c]] :
               n \in {N_a, N_b, N_y}, c \in Callees(ty)} :
           ty \in {"tuple", "noarray"}}
    \cup
    {[kind |-> "stmt", defined |-> <<NameTok(N_a, 21)>>,
      parent |-> [type |-> "list", previous |-> c]] : c \in Callees("list")}
PlainPaths ==
    { <<NameTok(N_a, 21)>>, <<NameTok(N_b, 21)>>, <<NameTok(N_y, 21)>>,
      <<NameTok(N_b, 22)>>, <<NameTok(N_a, 23)>>,
      <<[kind |-> "lit", name |-> <<>>, v |-> "str", pos |-> 24]>>,
      <<NameTok(N_a, 21), NameTok(N_x, 25)>>,
      <<NameTok(N_b, 26), NameTok(N_x, 25)>> }

GotoInputs ==
    [op : {"goto"}, stmt : ImportStmts, call_path : ImportPaths]
    \cup [op : {"goto"}, stmt : PlainStmts, call_path : PlainPaths]

InitGoto ==
    /\ prog \in [Stmts -> GotoShapes]
    /\ memoize_cache = <<>>
    /\ recursion_detector = <<>>
    /\ obs = NoObs
    /\ calls = 0
    /\ last = NoRequest
    /\ inp \in GotoInputs

Gone(r) ==
    /\ memoize_cache' = r.st.memo
    /\ recursion_detector' = r.st.rec
    /\ obs' = [n |-> r.st.n, runs |-> r.st.runs,
               started |-> r.st.started, done |-> r.st.done]
    /\ last' = [op |-> "goto", val |-> r.val, exc |-> r.st.exc,
                elog |-> r.st.elog, glog |-> r.st.glog]

\* a client calls evaluator.goto(stmt, call_path)
Goto ==
    /\ inp.op = "goto" /\ last.op = "none"
    /\ Gone(goto(Enter, inp.stmt, inp.call_path))
    /\ calls' = calls + 1
    /\ UNCHANGED <<prog, inp>>

SpecGoto == InitGoto /\ [][Goto]_vars

GotoDone == last.op = "goto"
\* nothing was evaluated and nothing was looked up
NothingResolved ==
    /\ obs.n = NoCounts /\ obs.runs = <<>> /\ last.elog = <<>>
    /\ last.glog = <<>> /\ memoize_cache = <<>>

\* C7: goto on an aliased import asked for the alias token returns that
\* token alone and never builds the ImportWrapper; the ImportWrapper is
\* consulted only when the first path segment is not the alias.
C7_AliasResolvesToItself ==
    (GotoDone /\ inp.stmt.kind = "import") =>
        /\ (inp.stmt.alias # NoName /\ inp.call_path[1] = inp.stmt.alias) =>
              /\ last.val = <<inp.call_path[1]>> /\ ~last.exc
              /\ obs.n.wrappers = 0 /\ NothingResolved
        /\ obs.n.wrappers > 0 => inp.call_path[1] # inp.stmt.alias

\* C7 witness: `import x.y as b` was asked for b and answered with b.
C7_Witness ==
    /\ GotoDone /\ inp.stmt.kind = "import" /\ inp.stmt.alias # NoName
    /\ inp.call_path = <<inp.stmt.alias>> /\ last.val = <<inp.stmt.alias>>
    /\ obs.n.wrappers = 0

\* the statement is a keyword argument of a call: it sits in the call's
\* argument array, which has a callee in front of it
IsCallArgument(stmt) ==
    stmt.parent.type \in {"tuple", "noarray"} /\ stmt.parent.previous # NoCall
\* a one-segment path naming one of the statement's own defined names
OwnDefinition ==
    /\ inp.stmt.kind = "stmt" /\ Len(inp.call_path) = 1
    /\ inp.call_path[1].kind = "name"
    /\ \E i \in 1..Len(inp.stmt.defined) : inp.stmt.defined[i] = inp.call_path[1]
\* the parameter Names of the callee types whose text is the argument's name
MatchingParams(types, arg) ==
    LET ParamsOf(t) ==
            IF t \in {"Foo", "Bar"}
            THEN Flatten([i \in 1..Len(InitMethods(t)) |-> Params(InitMethods(t)[i])])
            ELSE Params(t)
        Same(p) == p.name = arg.name
    IN  Flatten([i \in 1..Len(types) |-> SelectSeq(ParamsOf(types[i]), Same)])

\* C8: goto on a non-import statement with a one-segment path naming one of
\* the statement's own defined names returns that Name itself, evaluating
\* and looking up nothing; except for a keyword argument of a call, where
\* the callee alone (not the call) is evaluated, once, and the result is
\* exactly the parameter Names of the evaluated callees (for a class, of its
\* __init__ methods) whose text equals the argument's name.
C8_DefinitionStaysOnName ==
    (GotoDone /\ OwnDefinition) =>
        IF IsCallArgument(inp.stmt)
        THEN /\ ~last.exc
             /\ Len(last.glog) = 1 /\ last.glog[1].what = "eval_call"
             /\ last.glog[1].path = <<inp.stmt.parent.previous.head>>
                                       \o inp.stmt.parent.previous.upto
             /\ last.val = MatchingParams(last.glog[1].types, inp.call_path[1])
             /\ \A i \in 1..Len(last.val) :
                   last.val[i].name = inp.call_path[1].name
        ELSE last.val = <<inp.call_path[1]>> /\ ~last.exc /\ NothingResolved

\* C8 witness: the keyword argument `a` of a call of the class Foo resolved
\* to the parameters named a of Foo's __init__ methods.
C8_Witness ==
    /\ GotoDone /\ OwnDefinition /\ IsCallArgument(inp.stmt)
    /\ last.glog # <<>> /\ "Foo" \in Range(last.glog[1].types)
    /\ last.val = <<NameTok(N_a, 11)>>

\* C8 second witness: defining names outside a call stay on themselves.
C8_WitnessPlain ==
    /\ GotoDone /\ OwnDefinition /\ ~IsCallArgument(inp.stmt)
    /\ last.val = <<inp.call_path[1]>>

====
